---- MODULE Spec2Model ----
(***************************************************************************)
(* Model of the Concierge tool-calling client                             *)
(* (src/src/concierge_clients/client_tool_calling.py): the USER/SERVER    *)
(* mode controller, the connection registry, the tool-call translator and  *)
(* the bounded conversation loop.                                          *)
(*                                                                         *)
(* Python values: None is the string None below, a dict is a function, a   *)
(* list is a sequence.  A discovered server descriptor is a record         *)
(* [name, url]; a field equal to None stands for a key that is absent      *)
(* (dict.get returns None / the default for it).                           *)
(*                                                                         *)
(* The server's brief presentation (src/concierge/presentations/brief.py)  *)
(* is modelled as a function on strings.                                   *)
(***************************************************************************)
EXTENDS Integers, Sequences, FiniteSets, TLC

VARIABLES
    mode,                \* self.mode
    in_context_servers,  \* self.in_context_servers
    workflow_sessions,   \* self.workflow_sessions: workflow name -> session id
    current_workflow,    \* self.current_workflow
    current_tools,       \* self.current_tools (OpenAI function declarations)
    open_tool_calls,     \* conversation_history, kept as the ids of the tool
                         \* calls of its assistant messages that have no
                         \* role=tool message yet
    pc,                  \* where chat() is: idle, select, llm, dispatch,
                         \* returned, raised
    iteration,           \* chat's loop variable
    llm_rounds,          \* LLM invocations made by the running/last chat()
    tools,               \* chat's local `tools`: the schema of this round
    tools_mode,          \* the mode under which `tools` was selected
    pending,             \* ids of the reply's tool calls not yet dispatched
    chat_result,         \* what chat() returned
    last,                \* the client method the step into this state ran
                         \* (op none: it ran none): its argument, the
                         \* response it got, what it returned, what it sent
    tc,                  \* translator harness: the tool call under translation
    xl,                  \* translator harness: the translation's outcome
    brief                \* presentation harness: a BriefPresentation, the
                         \* orchestrator's current stage and the rendered text

vars == <<mode, in_context_servers, workflow_sessions, current_workflow,
          current_tools, open_tool_calls, pc, iteration, llm_rounds, tools,
          tools_mode, pending, chat_result, last, tc, xl, brief>>

client_vars == <<mode, in_context_servers, workflow_sessions,
                 current_workflow, current_tools>>

chat_vars == <<open_tool_calls, pc, iteration, llm_rounds, tools, tools_mode,
               pending, chat_result>>

xl_vars == <<tc, xl>>

harness_vars == <<xl_vars, brief>>

----------------------------------------------------------------------------
(* Bounds of the model *)

\* longest list a search returns
MaxServers == 1

\* longest tool list a server response carries
MaxTools == 1

\* most tool calls one assistant reply carries
MaxCalls == 2

\* longest list of tools, of transitions and of state entries of a rendered
\* stage (the portfolio stage apart)
MaxNames == 2

(* Program constants *)

\* chat(): max_iterations
max_iterations == 15

----------------------------------------------------------------------------
(* Values *)

None == "None"

USER == "user"

SERVER == "server"

concierge_url == "http://concierge"

Fallback == "Max iterations reached. Please try again."

\* Python truthiness of a name: `if name:` / `if not self.current_workflow`
Truthy(x) == x \notin {None, ""}

SeqsUpTo(S, n) == UNION {[1..k -> S] : k \in 0..n}

Min(S) == CHOOSE x \in S : \A y \in S : x <= y

\* names a registry may give a workflow; None: the descriptor has no name
ServerNames == {"w1", None}

\* url of a descriptor; None: the descriptor has no url
ServerUrls == {None, "http://remote"}

\* the descriptors a registry may answer
Descriptors ==
    {[name |-> "w1", url |-> None], [name |-> "w1", url |-> "http://remote"],
     [name |-> None, url |-> None]}

ServerLists == SeqsUpTo(Descriptors, MaxServers)

SessionIds == {"s1", "s2"}

\* tools as a server declares them; the last one lacks its input_schema
GoodTool(n) == [name |-> n, description |-> "d", input_schema |-> "schema"]

BadTool == [name |-> "t1", description |-> "d"]

ConciergeTools == {GoodTool("t1"), BadTool}

ToolLists == SeqsUpTo(ConciergeTools, MaxTools)

TransportFailures == {"network_error", "timeout", "http_error"}

\* An HTTP exchange as the client sees it: status is ok (2xx, JSON object
\* body), bad_json (2xx, body that is no JSON) or a transport failure
\* (requests raises, raise_for_status raises); sid is the X-Session-Id
\* response header (None: absent); has_tools/tools the body's "tools" key;
\* workflows the body's "workflows" key.
Response(status, sid, has_tools, tls, workflows) ==
    [status |-> status, sid |-> sid, has_tools |-> has_tools, tools |-> tls,
     workflows |-> workflows]

\* placeholder where a step sends no request
NoResponse == Response("none", None, FALSE, <<>>, <<>>)

\* what GET /api/workflows may do
SearchResponses ==
    {Response(st, None, FALSE, <<>>, <<>>) :
        st \in TransportFailures \cup {"bad_json"}}
    \cup {Response("ok", None, FALSE, <<>>, l) : l \in ServerLists}

\* what POST /execute may do with a handshake
HandshakeResponses ==
    {Response(st, None, FALSE, <<>>, <<>>) : st \in TransportFailures}
    \cup {Response(st, h, FALSE, <<>>, <<>>) :
            st \in {"bad_json", "ok"}, h \in SessionIds \cup {None}}
    \cup {Response("ok", h, TRUE, l, <<>>) :
            h \in SessionIds \cup {None}, l \in ToolLists}

\* what POST /execute may do with an action of call_workflow, which reads
\* the status and the body only
WorkflowResponses ==
    {Response(st, None, FALSE, <<>>, <<>>) :
        st \in TransportFailures \cup {"bad_json", "ok"}}
    \cup {Response("ok", None, TRUE, l, <<>>) : l \in ToolLists}

\* what POST /execute may do with the terminate_session of
\* disconnect_server, which reads nothing of it
TerminateResponses ==
    {Response(st, None, FALSE, <<>>, <<>>) :
        st \in TransportFailures \cup {"ok"}}

\* the client object
Self == [mode |-> mode,
         in_context_servers |-> in_context_servers,
         workflow_sessions |-> workflow_sessions,
         current_workflow |-> current_workflow,
         current_tools |-> current_tools]

\* dict helpers
DictSet(d, k, v) == [x \in DOMAIN d \cup {k} |-> IF x = k THEN v ELSE d[x]]

DictDel(d, k) == [x \in DOMAIN d \ {k} |-> d[x]]

EmptyDict == [x \in {} |-> None]

\* dict.get(key, default)
DictGet(d, k, default) == IF k \in DOMAIN d THEN d[k] ELSE default

\* one HTTP request as the client sends it
Request(action, workflow_name, sid, url) ==
    [action |-> action, workflow_name |-> workflow_name, sid |-> sid,
     url |-> url]

\* outcome of one client method: the object afterwards, the returned status
\* (or the exception), the returned value and the requests sent
Outcome(self, status, value, sent) ==
    [self |-> self, status |-> status, value |-> value, sent |-> sent]

----------------------------------------------------------------------------
(* ToolCallingClient.__init__ *)

InitClient ==
    /\ mode = USER
    /\ in_context_servers = <<>>
    /\ workflow_sessions = EmptyDict
    /\ current_workflow = None
    /\ current_tools = <<>>

----------------------------------------------------------------------------
(* ToolCallingClient.concierge_to_openai_tools: KeyError when a tool lacks *)
(* one of name, description, input_schema                                  *)

OpenAITool(tool) ==
    [type |-> "function",
     function |-> [name |-> tool.name, description |-> tool.description,
                   parameters |-> tool.input_schema]]

concierge_to_openai_tools(concierge_tools) ==
    IF \E i \in 1..Len(concierge_tools) :
           {"name", "description", "input_schema"}
               \ DOMAIN concierge_tools[i] # {}
    THEN [raised |-> TRUE, value |-> <<>>]
    ELSE [raised |-> FALSE,
          value |-> [i \in 1..Len(concierge_tools) |->
                        OpenAITool(concierge_tools[i])]]

\* names of a list of OpenAI function declarations, in order
ToolNames(openai_tools) ==
    [i \in 1..Len(openai_tools) |-> openai_tools[i].function.name]

----------------------------------------------------------------------------
(* ToolCallingClient.search_remote_servers *)

\* mutant: a failed search leaves the earlier result in place
search_remote_servers_keeping(self, resp) ==
    LET sent == <<Request("search", None, None, concierge_url)>> IN
    IF resp.status = "ok"
    THEN Outcome([self EXCEPT !.in_context_servers = resp.workflows],
                 "returned", resp.workflows, sent)
    ELSE Outcome(self, "returned", <<>>, sent)

search_remote_servers(self, resp) ==
    LET sent == <<Request("search", None, None, concierge_url)>> IN
    IF resp.status = "ok"
    THEN Outcome([self EXCEPT !.in_context_servers = resp.workflows],
                 "returned", resp.workflows, sent)
    ELSE Outcome([self EXCEPT !.in_context_servers = <<>>],
                 "returned", <<>>, sent)

----------------------------------------------------------------------------
(* ToolCallingClient.establish_connection *)

\* next((s for s in self.in_context_servers if s.get("name") == server_name),
\*      None): the positions that match; the first one is taken
Matches(servers, server_name) ==
    {i \in 1..Len(servers) : servers[i].name = server_name}

\* mutant: the mode is switched before the handshake is sent
establish_connection_mode_first(self, server_name, resp) ==
    LET hits == Matches(self.in_context_servers, server_name) IN
    IF hits = {}
    THEN Outcome(self, "error", <<>>, <<>>)
    ELSE
    LET server == self.in_context_servers[Min(hits)]
        server_url == IF server.url = None THEN concierge_url ELSE server.url
        sid == IF server_name \in DOMAIN self.workflow_sessions
               THEN self.workflow_sessions[server_name] ELSE None
        sent == <<Request("handshake", server_name, sid, server_url)>>
        switched == [self EXCEPT !.mode = SERVER,
                                 !.current_workflow = server_name]
        stored == IF resp.sid # None
                  THEN [switched EXCEPT !.workflow_sessions =
                            DictSet(self.workflow_sessions, server_name,
                                    resp.sid)]
                  ELSE switched
        converted == concierge_to_openai_tools(
                         IF resp.has_tools THEN resp.tools ELSE <<>>)
    IN  IF resp.status \in TransportFailures
        THEN Outcome(switched, "error", <<>>, sent)
        ELSE IF resp.status = "bad_json" \/ converted.raised
        THEN Outcome(stored, "error", <<>>, sent)
        ELSE Outcome([stored EXCEPT !.current_tools = converted.value],
                     "connected", ToolNames(converted.value), sent)

\* mutant: the lookup of lines 74-76 is missing, any name is connected to
establish_connection_unchecked(self, server_name, resp) ==
    LET hits == Matches(self.in_context_servers, server_name)
        server_url == IF hits = {} THEN concierge_url
                      ELSE IF self.in_context_servers[Min(hits)].url = None
                      THEN concierge_url
                      ELSE self.in_context_servers[Min(hits)].url
        sid == IF server_name \in DOMAIN self.workflow_sessions
               THEN self.workflow_sessions[server_name] ELSE None
        sent == <<Request("handshake", server_name, sid, server_url)>>
        stored == IF resp.sid # None
                  THEN [self EXCEPT !.workflow_sessions =
                            DictSet(self.workflow_sessions, server_name,
                                    resp.sid)]
                  ELSE self
        converted == concierge_to_openai_tools(
                         IF resp.has_tools THEN resp.tools ELSE <<>>)
    IN  IF resp.status \in TransportFailures
        THEN Outcome(self, "error", <<>>, sent)
        ELSE IF resp.status = "bad_json" \/ converted.raised
        THEN Outcome(stored, "error", <<>>, sent)
        ELSE Outcome([stored EXCEPT !.current_tools = converted.value,
                                    !.current_workflow = server_name,
                                    !.mode = SERVER],
                     "connected", ToolNames(converted.value), sent)

establish_connection(self, server_name, resp) ==
    LET hits == Matches(self.in_context_servers, server_name) IN
    IF hits = {}
    THEN Outcome(self, "error", <<>>, <<>>)
    ELSE
    LET server == self.in_context_servers[Min(hits)]
        server_url == IF server.url = None THEN concierge_url ELSE server.url
        sid == IF server_name \in DOMAIN self.workflow_sessions
               THEN self.workflow_sessions[server_name] ELSE None
        sent == <<Request("handshake", server_name, sid, server_url)>>
        \* line 93-94: the session id is stored before the body is read
        stored == IF resp.sid # None
                  THEN [self EXCEPT !.workflow_sessions =
                            DictSet(self.workflow_sessions, server_name,
                                    resp.sid)]
                  ELSE self
        converted == concierge_to_openai_tools(
                         IF resp.has_tools THEN resp.tools ELSE <<>>)
    IN  IF resp.status \in TransportFailures
        THEN Outcome(self, "error", <<>>, sent)
        ELSE IF resp.status = "bad_json" \/ converted.raised
        THEN Outcome(stored, "error", <<>>, sent)
        ELSE Outcome([stored EXCEPT !.current_tools = converted.value,
                                    !.current_workflow = server_name,
                                    !.mode = SERVER],
                     "connected", ToolNames(converted.value), sent)

----------------------------------------------------------------------------
(* ToolCallingClient.call_workflow: nothing is caught here *)

\* mutant: the tool list of a response is ignored (lines 199-200 missing)
call_workflow_stale(self, workflow_name, payload, resp) ==
    IF workflow_name \notin DOMAIN self.workflow_sessions
    THEN Outcome(self, "raised", <<>>, <<>>)
    ELSE
    LET sent == <<Request(payload.action, workflow_name,
                          self.workflow_sessions[workflow_name],
                          concierge_url)>>
    IN  IF resp.status # "ok"
        THEN Outcome(self, "raised", <<>>, sent)
        ELSE Outcome(self, "returned", <<>>, sent)

\* mutant: the guard of lines 185-186 is missing, the header goes out empty
call_workflow_unguarded(self, workflow_name, payload, resp) ==
    LET sent == <<Request(payload.action, workflow_name,
                          DictGet(self.workflow_sessions, workflow_name, None),
                          concierge_url)>>
        converted == concierge_to_openai_tools(resp.tools)
    IN  IF resp.status # "ok"
        THEN Outcome(self, "raised", <<>>, sent)
        ELSE IF ~resp.has_tools
        THEN Outcome(self, "returned", <<>>, sent)
        ELSE IF converted.raised
        THEN Outcome(self, "raised", <<>>, sent)
        ELSE Outcome([self EXCEPT !.current_tools = converted.value],
                     "returned", <<>>, sent)

call_workflow(self, workflow_name, payload, resp) ==
    IF workflow_name \notin DOMAIN self.workflow_sessions
    THEN Outcome(self, "raised", <<>>, <<>>)
    ELSE
    LET sent == <<Request(payload.action, workflow_name,
                          self.workflow_sessions[workflow_name],
                          concierge_url)>>
        converted == concierge_to_openai_tools(resp.tools)
    IN  IF resp.status # "ok"
        THEN Outcome(self, "raised", <<>>, sent)
        ELSE IF ~resp.has_tools
        THEN Outcome(self, "returned", <<>>, sent)
        ELSE IF converted.raised
        THEN Outcome(self, "raised", <<>>, sent)
        ELSE Outcome([self EXCEPT !.current_tools = converted.value],
                     "returned", <<>>, sent)

----------------------------------------------------------------------------
(* ToolCallingClient.disconnect_server *)

\* mutant: a notification that fails is not swallowed
disconnect_server_failing(self, resp) ==
    IF ~Truthy(self.current_workflow)
    THEN Outcome(self, "no_active_connection", <<>>, <<>>)
    ELSE
    LET workflow_name == self.current_workflow
        sent == IF workflow_name \in DOMAIN self.workflow_sessions
                THEN <<Request("terminate_session", workflow_name,
                               self.workflow_sessions[workflow_name],
                               concierge_url)>>
                ELSE <<>>
    IN  IF sent # <<>> /\ resp.status \in TransportFailures
        THEN Outcome(self, "error", <<>>, sent)
        ELSE Outcome([self EXCEPT
                         !.workflow_sessions =
                             DictDel(self.workflow_sessions, workflow_name),
                         !.current_workflow = None,
                         !.current_tools = <<>>,
                         !.in_context_servers = <<>>,
                         !.mode = USER],
                     "disconnected", <<>>, sent)

\* mutant: the guard of lines 206-207 is missing
disconnect_server_unguarded(self, resp) ==
    LET workflow_name == self.current_workflow
        sent == IF workflow_name \in DOMAIN self.workflow_sessions
                THEN <<Request("terminate_session", workflow_name,
                               self.workflow_sessions[workflow_name],
                               concierge_url)>>
                ELSE <<>>
    IN  Outcome([self EXCEPT
                    !.workflow_sessions =
                        DictDel(self.workflow_sessions, workflow_name),
                    !.current_workflow = None,
                    !.current_tools = <<>>,
                    !.in_context_servers = <<>>,
                    !.mode = USER],
                "disconnected", <<>>, sent)

disconnect_server(self, resp) ==
    IF ~Truthy(self.current_workflow)
    THEN Outcome(self, "no_active_connection", <<>>, <<>>)
    ELSE
    LET workflow_name == self.current_workflow
        sent == IF workflow_name \in DOMAIN self.workflow_sessions
                THEN <<Request("terminate_session", workflow_name,
                               self.workflow_sessions[workflow_name],
                               concierge_url)>>
                ELSE <<>>
    IN  \* whatever resp is, the bare except swallows it
        Outcome([self EXCEPT
                    !.workflow_sessions =
                        DictDel(self.workflow_sessions, workflow_name),
                    !.current_workflow = None,
                    !.current_tools = <<>>,
                    !.in_context_servers = <<>>,
                    !.mode = USER],
                "disconnected", <<>>, sent)

----------------------------------------------------------------------------
(* ToolCallingClient.get_user_mode_tools / get_server_mode_tools           *)
(* A schema is the sequence of its declarations; a declaration is kept as  *)
(* its name and, for establish_connection, the oneOf options of            *)
(* server_name.                                                            *)

Decl(name, options) == [name |-> name, options |-> options]

\* lines 142-150: one option per server whose name is truthy, in order
RECURSIVE server_options(_)
server_options(servers) ==
    IF servers = <<>> THEN <<>>
    ELSE (IF Truthy(Head(servers).name) THEN <<Head(servers).name>>
          ELSE <<>>) \o server_options(Tail(servers))

\* mutant: establish_connection is advertised whatever the discovery set
get_user_mode_tools_always(self) ==
    <<Decl("search_remote_servers", <<>>),
      Decl("establish_connection", server_options(self.in_context_servers))>>

get_user_mode_tools(self) ==
    <<Decl("search_remote_servers", <<>>)>>
    \o (IF self.in_context_servers # <<>>
        THEN <<Decl("establish_connection",
                    server_options(self.in_context_servers))>>
        ELSE <<>>)

get_server_mode_tools(self) ==
    [i \in 1..Len(self.current_tools) |->
        Decl(self.current_tools[i].function.name, <<>>)]
    \o <<Decl("disconnect_server", <<>>)>>

----------------------------------------------------------------------------
(* Tool calls of an assistant reply.  function.arguments is JSON text:     *)
(* valid says whether json.loads accepts it, value is the dict it yields.  *)

ToolCall(id, name, arguments) ==
    [id |-> id, name |-> name, arguments |-> arguments]

json_loads(text) ==
    IF text.valid THEN [raised |-> FALSE, value |-> text.value]
    ELSE [raised |-> TRUE, value |-> EmptyDict]

ToolCallNames ==
    {"search_remote_servers", "establish_connection", "disconnect_server",
     "transition_stage", "provide_state", "terminate_session", "t1", "t2"}

ArgDicts ==
    {EmptyDict, [search_query |-> "q"], [target_stage |-> "portfolio"],
     [reason |-> "done"], [property_id |-> "p1"],
     [target_stage |-> "portfolio", reason |-> "done"]}
    \cup {[server_name |-> n] : n \in ServerNames}

ArgTexts ==
    {[valid |-> TRUE, value |-> d] : d \in ArgDicts}
    \cup {[valid |-> FALSE, value |-> EmptyDict]}

Json(d) == [valid |-> TRUE, value |-> d]

\* the (name, arguments) pairs an assistant reply draws its tool calls from:
\* each client tool with and without the argument its handler reads, a
\* reserved name without its argument, a reserved name with all it needs, a
\* domain tool, and a call whose arguments are no JSON
ReplyCalls ==
    {<<"search_remote_servers", Json([search_query |-> "q"])>>,
     <<"search_remote_servers", Json(EmptyDict)>>,
     <<"establish_connection", Json(EmptyDict)>>,
     <<"disconnect_server", Json(EmptyDict)>>,
     <<"transition_stage", Json(EmptyDict)>>,
     <<"terminate_session", Json(EmptyDict)>>,
     <<"t1", Json([property_id |-> "p1"])>>,
     <<"t1", [valid |-> FALSE, value |-> EmptyDict]>>}
    \cup {<<"establish_connection", Json([server_name |-> n])>> :
             n \in ServerNames}

(* ToolCallingClient.openai_to_concierge_action *)

Raised(what) == [raised |-> TRUE, action |-> [action |-> what]]

Returned(action) == [raised |-> FALSE, action |-> action]

openai_to_concierge_action(tool_call) ==
    LET function_name == tool_call.name
        loaded == json_loads(tool_call.arguments)
        arguments == loaded.value
    IN  IF loaded.raised THEN Raised("JSONDecodeError")
        ELSE IF function_name = "transition_stage"
        THEN IF "target_stage" \in DOMAIN arguments
             THEN Returned([action |-> "stage_transition",
                            stage |-> arguments["target_stage"]])
             ELSE Raised("KeyError")
        ELSE IF function_name = "provide_state"
        THEN Returned([action |-> "state_input",
                       state_updates |-> arguments])
        ELSE IF function_name = "terminate_session"
        THEN Returned([action |-> "terminate_session",
                       reason |-> DictGet(arguments, "reason", "completed")])
        ELSE Returned([action |-> "method_call", task |-> function_name,
                       args |-> arguments])

----------------------------------------------------------------------------
(* ToolCallingClient.chat, lines 347-386: one tool call of the reply.      *)
(* The result names the client method the call was routed to (op, arg) and *)
(* that method's outcome; status raised: an exception leaves chat().       *)

Routed(op, arg, out) == [op |-> op, arg |-> arg, out |-> out]

Escapes(self) == Routed("none", None, Outcome(self, "raised", <<>>, <<>>))

execute_tool_call(self, tool_call, resp) ==
    LET function_name == tool_call.name
        loaded == json_loads(tool_call.arguments)
        arguments == loaded.value
    IN  IF loaded.raised THEN Escapes(self)
        ELSE IF self.mode = USER
        THEN IF function_name = "search_remote_servers"
             THEN IF "search_query" \notin DOMAIN arguments
                  THEN Escapes(self)
                  ELSE Routed("search_remote_servers", None,
                              search_remote_servers(self, resp))
             ELSE IF function_name = "establish_connection"
             THEN IF "server_name" \notin DOMAIN arguments
                  THEN Escapes(self)
                  ELSE Routed("establish_connection",
                              arguments["server_name"],
                              establish_connection(
                                  self, arguments["server_name"], resp))
             ELSE Routed("none", None,
                         Outcome(self, "not_available", <<>>, <<>>))
        ELSE IF function_name = "disconnect_server"
             THEN Routed("disconnect_server", None,
                         disconnect_server(self, resp))
             ELSE IF ~Truthy(self.current_workflow)
             THEN Routed("none", None,
                         Outcome(self, "not_connected", <<>>, <<>>))
             ELSE LET action == openai_to_concierge_action(tool_call) IN
                  IF action.raised THEN Escapes(self)
                  ELSE Routed("call_workflow", self.current_workflow,
                              call_workflow(self, self.current_workflow,
                                            action.action, resp))

\* the responses the environment may give to the request a client method
\* sends (which request, if any, does not depend on the response)
ResponsesTo(op, sent) ==
    IF sent = <<>> THEN {NoResponse}
    ELSE IF op = "search_remote_servers" THEN SearchResponses
    ELSE IF op = "establish_connection" THEN HandshakeResponses
    ELSE IF op = "call_workflow" THEN WorkflowResponses
    ELSE TerminateResponses

\* Tool-call ids.  The ids of the reply at hand are its positions 1..k.  An
\* id of an earlier reply that is still open when chat() is left can never
\* be answered later (chat answers only the reply at hand): such ids are
\* all kept as Orphan.
Orphan == 0

ReplyIds(k) == [i \in 1..k |-> i]

Ids(seq) == {seq[i] : i \in 1..Len(seq)}

Orphaned(open) == IF open = {} THEN {} ELSE {Orphan}

\* what `last` records of a step
Last(op, arg, resp, out) ==
    [op |-> op, arg |-> arg, resp |-> resp, status |-> out.status,
     value |-> out.value, sent |-> out.sent]

NoLast == Last("none", None, NoResponse, Outcome(<<>>, "none", <<>>, <<>>))

SetClient(self) ==
    /\ mode' = self.mode
    /\ in_context_servers' = self.in_context_servers
    /\ workflow_sessions' = self.workflow_sessions
    /\ current_workflow' = self.current_workflow
    /\ current_tools' = self.current_tools

InChat == pc \in {"select", "llm", "dispatch"}

----------------------------------------------------------------------------
(* BriefPresentation (src/concierge/presentations/brief.py).  A stage is   *)
(* [name, local_state, tools, transitions]: local_state.data as the        *)
(* sequence of its (key, value) items, tools as the sequence of the keys   *)
(* of the stage's tools dict, transitions as the list of targets; each in  *)
(* the order Python iterates it, which for a dict is the order in which    *)
(* the keys were inserted.                                                 *)

Stage(name, local_state, tls, transitions) ==
    [name |-> name, local_state |-> local_state, tools |-> tls,
     transitions |-> transitions]

\* examples/zillow/stages/portfolio.py: no prerequisites, no transitions,
\* five tools in the order of their declaration, nothing in the state yet
Portfolio ==
    Stage("portfolio", <<>>,
          <<"monitor_property_values", "track_rent_comps",
            "detect_refi_opportunities", "run_cost_segregation",
            "simulate_rebalance">>,
          <<>>)

\* str.join
RECURSIVE Join(_, _)
Join(strings, sep) ==
    IF strings = <<>> THEN ""
    ELSE IF Len(strings) = 1 THEN Head(strings)
    ELSE Head(strings) \o sep \o Join(Tail(strings), sep)

\* json.dumps of a scalar: a string in double quotes, an integer in digits
json_dumps_value(v) ==
    IF "str" \in DOMAIN v THEN "\"" \o v.str \o "\"" ELSE ToString(v.int)

\* json.dumps of a dict with string keys, default separators
json_dumps(items) ==
    "{"
    \o Join([i \in 1..Len(items) |->
                "\"" \o items[i][1] \o "\": "
                \o json_dumps_value(items[i][2])],
            ", ")
    \o "}"

_format_current_state(stage) ==
    LET state_data == stage.local_state IN
    IF state_data # <<>> THEN json_dumps(state_data) ELSE "{}"

\* mutant: the tool names are listed last key first
_format_available_tools_reversed(stage) ==
    IF stage.tools = <<>> THEN "none"
    ELSE Join([i \in 1..Len(stage.tools) |->
                  stage.tools[Len(stage.tools) + 1 - i]], ", ")

_format_available_tools(stage) ==
    IF stage.tools = <<>> THEN "none" ELSE Join(stage.tools, ", ")

_format_available_transitions(stage) ==
    IF stage.transitions = <<>> THEN "none"
    ELSE Join(stage.transitions, ", ")

\* render_text of a presentation whose content is `content`, for an
\* orchestrator whose get_current_stage() is `current_stage`
render_text(content, current_stage) ==
    LET lines ==
            <<content,
              "",
              "Current stage: " \o current_stage.name,
              "State: " \o _format_current_state(current_stage),
              "Available tools: " \o _format_available_tools(current_stage),
              "Available transitions: "
                  \o _format_available_transitions(current_stage)>>
    IN  Join(lines, "\n")

\* what is rendered: contents, stage names, state items, tool and
\* transition names
Contents == {"Values updated", ""}

StageNames == {"portfolio", "browse"}

StateItems == {<<"zip", [str |-> "94110"]>>, <<"budget", [int |-> 5]>>}

NamePool == {"search", "browse"}

\* sequences without a repeated element: the keys of a dict
Distinct(seqs) ==
    {q \in seqs : \A i, j \in 1..Len(q) : q[i] = q[j] => i = j}

\* dict keys are unique
KeyLists(items) ==
    {q \in SeqsUpTo(items, MaxNames) :
        \A i, j \in 1..Len(q) : q[i][1] = q[j][1] => i = j}

Stages ==
    {Portfolio}
    \cup {Stage(n, st, tl, tr) :
            n \in StageNames, st \in KeyLists(StateItems),
            tl \in Distinct(SeqsUpTo(NamePool, MaxNames)),
            tr \in SeqsUpTo(NamePool, MaxNames)}

NoBrief == [pc |-> "off", content |-> "", stage |-> Portfolio, text |-> ""]

----------------------------------------------------------------------------
(* Initial state: a constructed client, no chat running *)

Init ==
    /\ InitClient
    /\ open_tool_calls = {}
    /\ pc = "idle"
    /\ iteration = 0
    /\ llm_rounds = 0
    /\ tools = <<>>
    /\ tools_mode = None
    /\ pending = <<>>
    /\ chat_result = None
    /\ last = NoLast
    /\ tc = ToolCall(0, "none", [valid |-> TRUE, value |-> EmptyDict])
    /\ xl = [pc |-> "off", raised |-> FALSE, action |-> [action |-> "none"]]
    /\ brief = NoBrief

----------------------------------------------------------------------------
(* The client's methods called directly (by a caller other than chat)      *)

Search ==
    /\ ~InChat
    /\ \E resp \in ResponsesTo("search_remote_servers",
                              search_remote_servers(Self, NoResponse).sent) :
          LET out == search_remote_servers(Self, resp) IN
          /\ SetClient(out.self)
          /\ last' = Last("search_remote_servers", None, resp, out)
    /\ UNCHANGED <<chat_vars, harness_vars>>

Establish ==
    /\ ~InChat
    /\ \E server_name \in ServerNames :
       \E resp \in ResponsesTo(
                      "establish_connection",
                      establish_connection(Self, server_name, NoResponse).sent) :
          LET out == establish_connection(Self, server_name, resp) IN
          /\ SetClient(out.self)
          /\ last' = Last("establish_connection", server_name, resp, out)
    /\ UNCHANGED <<chat_vars, harness_vars>>

\* payloads a direct caller hands to call_workflow
Payloads ==
    {[action |-> "method_call", task |-> "t1", args |-> EmptyDict],
     [action |-> "terminate_session", reason |-> "completed"]}

CallWorkflow ==
    /\ ~InChat
    /\ \E workflow_name \in ServerNames, payload \in Payloads :
       \E resp \in ResponsesTo(
                      "call_workflow",
                      call_workflow(Self, workflow_name, payload,
                                    NoResponse).sent) :
          LET out == call_workflow(Self, workflow_name, payload, resp) IN
          /\ SetClient(out.self)
          /\ last' = Last("call_workflow", workflow_name, resp, out)
    /\ UNCHANGED <<chat_vars, harness_vars>>

Disconnect ==
    /\ ~InChat
    /\ \E resp \in ResponsesTo("disconnect_server",
                              disconnect_server(Self, NoResponse).sent) :
          LET out == disconnect_server(Self, resp) IN
          /\ SetClient(out.self)
          /\ last' = Last("disconnect_server", None, resp, out)
    /\ UNCHANGED <<chat_vars, harness_vars>>

----------------------------------------------------------------------------
(* ToolCallingClient.chat *)

\* lines 305-310: the user message is appended, the loop starts
ChatStart ==
    /\ ~InChat
    /\ pc' = "select"
    /\ iteration' = 0
    /\ llm_rounds' = 0
    /\ chat_result' = None
    /\ last' = NoLast
    /\ UNCHANGED <<client_vars, open_tool_calls, tools, tools_mode, pending,
                   harness_vars>>

\* lines 312-315: the schema of the round
SelectTools ==
    /\ pc = "select"
    /\ tools' = IF mode = USER THEN get_user_mode_tools(Self)
                ELSE get_server_mode_tools(Self)
    /\ tools_mode' = mode
    /\ pc' = "llm"
    /\ last' = NoLast
    /\ UNCHANGED <<client_vars, open_tool_calls, iteration, llm_rounds,
                   pending, chat_result, harness_vars>>

\* lines 319-345: the LLM answers with k tool calls; the assistant message is
\* appended; with no tool call chat returns the reply text
LLMReply ==
    /\ pc = "llm"
    /\ llm_rounds' = llm_rounds + 1
    /\ \E k \in 0..MaxCalls :
          LET ids == ReplyIds(k) IN
          /\ IF k = 0
             THEN /\ pc' = "returned"
                  /\ chat_result' = "content"
                  /\ tools' = <<>>
                  /\ tools_mode' = None
                  /\ iteration' = 0
                  /\ UNCHANGED <<pending, open_tool_calls>>
             ELSE /\ pc' = "dispatch"
                  /\ pending' = ids
                  /\ open_tool_calls' = open_tool_calls \cup Ids(ids)
                  /\ UNCHANGED <<chat_result, tools, tools_mode, iteration>>
    /\ last' = NoLast
    /\ UNCHANGED <<client_vars, harness_vars>>

\* lines 347-388: the next tool call of the reply is executed and its result
\* appended; after the reply's last call the loop goes on to the next round
\* or, the budget spent, chat returns the fallback
ToolCallStep ==
    /\ pc = "dispatch"
    /\ \E call \in ReplyCalls :
       LET tool_call == ToolCall(Head(pending), call[1], call[2]) IN
       LET probe == execute_tool_call(Self, tool_call, NoResponse) IN
       \E resp \in ResponsesTo(probe.op, probe.out.sent) :
          LET r == execute_tool_call(Self, tool_call, resp) IN
          /\ SetClient(r.out.self)
          /\ last' = Last(r.op, r.arg, resp, r.out)
          /\ IF r.out.status = "raised"
             THEN /\ pc' = "raised"
                  /\ pending' = <<>>
                  /\ tools' = <<>>
                  /\ tools_mode' = None
                  /\ iteration' = 0
                  /\ open_tool_calls' = Orphaned(open_tool_calls)
                  /\ UNCHANGED chat_result
             ELSE /\ open_tool_calls' = open_tool_calls \ {tool_call.id}
                  /\ pending' = Tail(pending)
                  /\ IF Tail(pending) # <<>>
                     THEN UNCHANGED <<pc, iteration, tools, tools_mode,
                                      chat_result>>
                     ELSE IF iteration + 1 < max_iterations
                     THEN /\ pc' = "select"
                          /\ iteration' = iteration + 1
                          /\ UNCHANGED <<tools, tools_mode, chat_result>>
                     ELSE /\ pc' = "returned"
                          /\ chat_result' = Fallback
                          /\ iteration' = 0
                          /\ tools' = <<>>
                          /\ tools_mode' = None
    /\ UNCHANGED <<llm_rounds, harness_vars>>

----------------------------------------------------------------------------
(* openai_to_concierge_action applied to one tool call *)

InitXlate ==
    /\ InitClient
    /\ open_tool_calls = {}
    /\ pc = "idle"
    /\ iteration = 0
    /\ llm_rounds = 0
    /\ tools = <<>>
    /\ tools_mode = None
    /\ pending = <<>>
    /\ chat_result = None
    /\ last = NoLast
    /\ tc \in {ToolCall(1, n, a) : n \in ToolCallNames, a \in ArgTexts}
    /\ xl = [pc |-> "ready", raised |-> FALSE, action |-> [action |-> "none"]]
    /\ brief = NoBrief

Translate ==
    /\ xl.pc = "ready"
    /\ LET r == openai_to_concierge_action(tc) IN
       xl' = [pc |-> "done", raised |-> r.raised, action |-> r.action]
    /\ UNCHANGED <<client_vars, chat_vars, last, tc, brief>>

NextXlate == Translate

SpecXlate == InitXlate /\ [][NextXlate]_vars

----------------------------------------------------------------------------
(* BriefPresentation.render_text applied to one content and one stage *)

InitBrief ==
    /\ InitClient
    /\ open_tool_calls = {}
    /\ pc = "idle"
    /\ iteration = 0
    /\ llm_rounds = 0
    /\ tools = <<>>
    /\ tools_mode = None
    /\ pending = <<>>
    /\ chat_result = None
    /\ last = NoLast
    /\ tc = ToolCall(0, "none", [valid |-> TRUE, value |-> EmptyDict])
    /\ xl = [pc |-> "off", raised |-> FALSE, action |-> [action |-> "none"]]
    /\ brief \in {[pc |-> "ready", content |-> c, stage |-> st, text |-> ""] :
                     c \in Contents, st \in Stages}

\* render_text may be called any number of times; it changes nothing but
\* the text it hands back
Render ==
    /\ brief.pc \in {"ready", "done"}
    /\ brief' = [brief EXCEPT !.pc = "done",
                              !.text = render_text(brief.content,
                                                   brief.stage)]
    /\ UNCHANGED <<client_vars, chat_vars, last, xl_vars>>

NextBrief == Render

SpecBrief == InitBrief /\ [][NextBrief]_vars

----------------------------------------------------------------------------
\* the client driven through its methods
Next ==
    \/ Search
    \/ Establish
    \/ CallWorkflow
    \/ Disconnect

Spec == Init /\ [][Next]_vars

\* the client driven through chat(), as run() drives it
NextChat ==
    \/ ChatStart
    \/ SelectTools
    \/ LLMReply
    \/ ToolCallStep

SpecChat == Init /\ [][NextChat]_vars

----------------------------------------------------------------------------
(* Claims *)

SchemaNames(schema) == [i \in 1..Len(schema) |-> schema[i].name]

\* C1: in every reachable state mode is SERVER if and only if
\* current_workflow is set; never SERVER with no current workflow, never USER
\* with one.
C1_ModeIffWorkflow == (mode = SERVER) <=> (current_workflow # None)

\* C2: the mode changes only from USER to SERVER in a step in which
\* establish_connection returns status connected, and only from SERVER to
\* USER in a disconnect_server step; no other step changes it.
C2_ModeChanges ==
    [][mode' # mode =>
        \/ /\ mode = USER
           /\ mode' = SERVER
           /\ last'.op = "establish_connection"
           /\ last'.status = "connected"
        \/ /\ mode = SERVER
           /\ mode' = USER
           /\ last'.op = "disconnect_server"]_vars

\* C2 witness: a disconnect has brought a connected client back to USER
C2_Witness ==
    /\ last.op = "disconnect_server"
    /\ last.status = "disconnected"
    /\ mode = USER
    /\ pc = "select"

C4_DisconnectCompletes ==
    [][(Truthy(current_workflow) /\ last'.op = "disconnect_server") =>
        /\ mode' = USER
        /\ current_workflow' = None
        /\ current_tools' = <<>>
        /\ in_context_servers' = <<>>
        /\ current_workflow \notin DOMAIN workflow_sessions'
        /\ last'.status = "disconnected"]_vars

\* C4 witness: a disconnect whose notification timed out has completed
C4_Witness ==
    /\ last.op = "disconnect_server"
    /\ last.sent # <<>>
    /\ last.resp.status = "timeout"
    /\ last.status = "disconnected"

\* C5: chat never raises for a tool-level or transport-level failure:
\* whatever a search, a handshake, a workflow call or a terminate
\* notification does, no exception leaves chat in the step that ran it.
C5_ChatNeverRaises == ~(pc = "raised" /\ last.op # "none")

\* C6: a chat makes at most max_iterations LLM rounds and always ends by
\* returning: the reply text in the first round without tool calls, the
\* fallback message when all max_iterations rounds requested tool calls.
C6_BoundedAndReturns ==
    /\ llm_rounds <= max_iterations
    /\ pc = "returned" =>
          /\ chat_result \in {"content", Fallback}
          /\ chat_result = Fallback => llm_rounds = max_iterations
    /\ llm_rounds = max_iterations /\ pc \in {"returned", "raised"} =>
          /\ pc = "returned"
          /\ chat_result \in {"content", Fallback}

\* C7: the history handed to the LLM, and the history chat returns with,
\* holds no assistant tool call without a tool-result message for its id.
C7_EveryCallAnswered ==
    pc \in {"llm", "returned"} => open_tool_calls = {}

\* C8: after search_remote_servers the discovery set is exactly the list the
\* call returned: the response's workflows on success, the empty list on any
\* failure; nothing of an earlier search survives.
C8_SearchOverwrites ==
    last.op = "search_remote_servers" =>
        /\ in_context_servers = last.value
        /\ last.value = IF last.resp.status = "ok"
                        THEN last.resp.workflows ELSE <<>>

\* C8 witness: a search has failed in transport
C8_Witness ==
    /\ last.op = "search_remote_servers"
    /\ last.resp.status = "timeout"
    /\ workflow_sessions # EmptyDict

\* C9: disconnect_server with no current workflow returns
\* no_active_connection, sends nothing and changes nothing of the client.
C9_DisconnectIdle ==
    [][(current_workflow = None /\ last'.op = "disconnect_server") =>
        /\ last'.status = "no_active_connection"
        /\ last'.sent = <<>>
        /\ UNCHANGED client_vars]_vars

\* C9 witness: a disconnect found no connection, with a discovery set and a
\* tracked session at hand
C9_Witness ==
    /\ last.op = "disconnect_server"
    /\ last.status = "no_active_connection"
    /\ in_context_servers # <<>>
    /\ workflow_sessions # EmptyDict

\* C10: openai_to_concierge_action returns an action for every name and
\* every set of arguments: stage_transition with the target stage,
\* state_input with all arguments, terminate_session with the reason or
\* completed, and for any other name method_call with that name and all
\* arguments.
C10_TranslationTotal ==
    (xl.pc = "done" /\ tc.arguments.valid) =>
        /\ ~xl.raised
        /\ xl.action.action =
              CASE tc.name = "transition_stage" -> "stage_transition"
                [] tc.name = "provide_state" -> "state_input"
                [] tc.name = "terminate_session" -> "terminate_session"
                [] OTHER -> "method_call"
        /\ tc.name = "transition_stage" =>
              xl.action.stage = tc.arguments.value["target_stage"]
        /\ tc.name = "provide_state" =>
              xl.action.state_updates = tc.arguments.value
        /\ tc.name = "terminate_session" =>
              xl.action.reason =
                  IF "reason" \in DOMAIN tc.arguments.value
                  THEN tc.arguments.value["reason"] ELSE "completed"
        /\ tc.name \notin {"transition_stage", "provide_state",
                           "terminate_session"} =>
              /\ xl.action.task = tc.name
              /\ xl.action.args = tc.arguments.value

\* C11: every request other than a handshake (and the discovery query) that
\* a client method sends names a workflow for which workflow_sessions holds
\* a session id when the method is called, and carries exactly that id as
\* X-Session-Id; none is sent for a workflow without a stored id.
C11_SessionAttached ==
    [][\A i \in 1..Len(last'.sent) :
          last'.sent[i].action \notin {"handshake", "search"} =>
              /\ last'.sent[i].workflow_name \in DOMAIN workflow_sessions
              /\ last'.sent[i].sid =
                     workflow_sessions[last'.sent[i].workflow_name]
              /\ last'.sent[i].sid \in SessionIds]_vars

\* C11 witness: a workflow call has gone out with the tracked session id
C11_Witness ==
    /\ last.op = "call_workflow"
    /\ last.sent # <<>>
    /\ last.sent[1].action = "method_call"
    /\ last.sent[1].sid = "s2"

\* C12: establish_connection is all or nothing: either it returns status
\* connected with the session id stored for the workflow, current_workflow
\* and current_tools set and mode SERVER, or it returns an error and mode,
\* current_workflow, current_tools and workflow_sessions are as before.
C12_EstablishAtomic ==
    [][last'.op = "establish_connection" =>
        \/ /\ last'.status = "connected"
           /\ mode' = SERVER
           /\ current_workflow' = last'.arg
           /\ ToolNames(current_tools') = last'.value
           /\ last'.arg \in DOMAIN workflow_sessions'
        \/ /\ last'.status = "error"
           /\ UNCHANGED <<mode, current_workflow, current_tools,
                          workflow_sessions>>]_vars

\* C13: connecting to a discovered workflow for which a session id is
\* already tracked performs no handshake and leaves the tracked id as it
\* is; only when none is tracked is a handshake sent, and the id of its
\* response is the one stored when the connection is made.
C13_BeginIdempotent ==
    [][(/\ last'.op = "establish_connection"
        /\ Matches(in_context_servers, last'.arg) # {}) =>
        IF last'.arg \in DOMAIN workflow_sessions
        THEN /\ last'.sent = <<>>
             /\ workflow_sessions' = workflow_sessions
        ELSE /\ Len(last'.sent) = 1
             /\ last'.sent[1].action = "handshake"
             /\ last'.sent[1].sid = None
             /\ last'.resp.sid # None =>
                    /\ last'.arg \in DOMAIN workflow_sessions'
                    /\ workflow_sessions'[last'.arg] = last'.resp.sid]_vars

\* C14: whenever the schema handed to the LLM in USER mode holds
\* establish_connection, the options of its server_name are exactly the
\* names of the servers of the discovery set: one option for every
\* discovered server, none for anything else, and at least one option.
C14_OptionsAreDiscovered ==
    (pc = "llm" /\ tools_mode = USER) =>
        \A i \in 1..Len(tools) :
            tools[i].name = "establish_connection" =>
                /\ tools[i].options # <<>>
                /\ Len(tools[i].options) = Len(in_context_servers)
                /\ \A j \in 1..Len(in_context_servers) :
                       tools[i].options[j] = in_context_servers[j].name

\* C15: a connection is made only to a server of the most recent search
\* result.  establish_connection with a name that no descriptor of the
\* discovery set carries returns an error, sends nothing and changes
\* nothing; a call that connects found its name in the discovery set; a
\* disconnect that completes empties the discovery set; and the discovery
\* set changes only by a search, which makes it that search's result, or by
\* a disconnect.  Hence after a disconnect nothing can be connected to until
\* a later search has returned it.
C15_ConnectOnlyDiscovered ==
    [][/\ (/\ last'.op = "establish_connection"
           /\ Matches(in_context_servers, last'.arg) = {}) =>
              /\ last'.status = "error"
              /\ last'.sent = <<>>
              /\ UNCHANGED client_vars
       /\ (last'.op = "establish_connection" /\ last'.status = "connected") =>
              /\ \E i \in 1..Len(in_context_servers) :
                     in_context_servers[i].name = current_workflow'
              /\ in_context_servers' = in_context_servers
       /\ last'.status = "disconnected" => in_context_servers' = <<>>
       /\ in_context_servers' # in_context_servers =>
              \/ last'.op = "disconnect_server"
              \/ /\ last'.op = "search_remote_servers"
                 /\ in_context_servers' = last'.value]_vars

\* C15 witness: a name that the non-empty discovery set does not hold was
\* refused without a handshake
C15_Witness ==
    /\ last.op = "establish_connection"
    /\ last.status = "error"
    /\ last.sent = <<>>
    /\ in_context_servers # <<>>
    /\ last.arg = "w1"

\* a tool list every tool of which has name, description and input_schema
WellFormed(concierge_tools) ==
    \A i \in 1..Len(concierge_tools) :
        {"name", "description", "input_schema"} \subseteq
            DOMAIN concierge_tools[i]

\* openai_tools is the declaration-by-declaration translation of the list
TranslationOf(openai_tools, concierge_tools) ==
    /\ Len(openai_tools) = Len(concierge_tools)
    /\ \A i \in 1..Len(concierge_tools) :
          /\ openai_tools[i].type = "function"
          /\ openai_tools[i].function.name = concierge_tools[i].name
          /\ openai_tools[i].function.description =
                 concierge_tools[i].description
          /\ openai_tools[i].function.parameters =
                 concierge_tools[i].input_schema

RECURSIVE CommaSeparated(_, _)
CommaSeparated(names, n) ==
    IF n = 0 THEN ""
    ELSE IF n = 1 THEN names[1]
    ELSE CommaSeparated(names, n - 1) \o ", " \o names[n]

\* the names in the order given, or the word none
Listed(names) ==
    IF Len(names) = 0 THEN "none" ELSE CommaSeparated(names, Len(names))

\* C17: the brief text of (content, stage) is the content, an empty line,
\* "Current stage: <name>", "State: <JSON of the local state, {} when it is
\* empty>", "Available tools: <names, comma-separated, or none>" and
\* "Available transitions: <targets, comma-separated, or none>", joined by
\* newlines, the names in the order of the stage's tools and transitions
\* and not sorted; rendering again gives the same text.  For the portfolio
\* stage and the content Values updated it is the text of the
\* specification's example.
C17_BriefText ==
    brief.pc = "done" =>
        /\ brief.text =
               brief.content \o "\n"
               \o "\n"
               \o "Current stage: " \o brief.stage.name \o "\n"
               \o "State: "
               \o (IF brief.stage.local_state = <<>> THEN "{}"
                   ELSE json_dumps(brief.stage.local_state)) \o "\n"
               \o "Available tools: " \o Listed(brief.stage.tools) \o "\n"
               \o "Available transitions: "
               \o Listed(brief.stage.transitions)
        /\ (brief.content = "Values updated" /\ brief.stage = Portfolio) =>
               brief.text =
                   "Values updated\n\nCurrent stage: portfolio\nState: {}\n"
                   \o "Available tools: monitor_property_values, "
                   \o "track_rent_comps, detect_refi_opportunities, "
                   \o "run_cost_segregation, simulate_rebalance\n"
                   \o "Available transitions: none"
        /\ (/\ brief.stage.local_state =
                  <<<<"zip", [str |-> "94110"]>>, <<"budget", [int |-> 5]>>>>
            /\ brief.stage.tools = <<"search", "browse">>
            /\ brief.stage.transitions = <<"search">>
            /\ brief.stage.name = "browse"
            /\ brief.content = "") =>
               brief.text =
                   "\n\nCurrent stage: browse\n"
                   \o "State: {\"zip\": \"94110\", \"budget\": 5}\n"
                   \o "Available tools: search, browse\n"
                   \o "Available transitions: search"

\* C17 witness: a stage with state and with tools and transitions declared
\* in an order that is not the sorted one has been rendered
C17_Witness ==
    /\ brief.pc = "done"
    /\ brief.stage.local_state # <<>>
    /\ brief.stage.tools = <<"search", "browse">>
    /\ brief.stage.transitions = <<"search", "browse">>
    /\ brief.text # ""

\* C18: while the tool calls of a reply are dispatched, the mode is the one
\* for which the round's schema was selected, and any call the reply may
\* hold that is run (by a client method or forwarded to the server) has a
\* name of that schema.
C18_DispatchedUnderSchema ==
    pc = "dispatch" =>
        /\ mode = tools_mode
        /\ \A call \in ReplyCalls :
              execute_tool_call(Self,
                                ToolCall(Head(pending), call[1], call[2]),
                                NoResponse).op # "none" =>
                  \E i \in 1..Len(tools) : tools[i].name = call[1]

\* C19: whenever the mode is SERVER, workflow_sessions holds a session id
\* for current_workflow, whatever the handshake's response was.
C19_ServerHasSession ==
    mode = SERVER =>
        /\ current_workflow \in DOMAIN workflow_sessions
        /\ workflow_sessions[current_workflow] \in SessionIds

\* C20: the requests of a connection go to the address its handshake went
\* to.  Stated for the request that follows the handshake: when the step
\* after a connect sends a workflow call or a terminate_session for the
\* workflow just connected, it sends it to the URL the handshake was sent
\* to, whatever url the discovered descriptor carries.
C20_SameAddress ==
    [][(/\ last.op = "establish_connection"
        /\ last.status = "connected"
        /\ last'.op \in {"call_workflow", "disconnect_server"}
        /\ last'.sent # <<>>
        /\ last'.sent[1].workflow_name = last.arg) =>
            last'.sent[1].url = last.sent[1].url]_vars

\* C21: once a step has sent terminate_session for a workflow's session,
\* whether from disconnect_server or as a forwarded tool call,
\* workflow_sessions no longer holds that session id for the workflow, and
\* the step that follows sends no request carrying it.
C21_NoStaleSession ==
    [][/\ \A i \in 1..Len(last'.sent) :
             last'.sent[i].action = "terminate_session" =>
                 \/ last'.sent[i].workflow_name \notin DOMAIN workflow_sessions'
                 \/ workflow_sessions'[last'.sent[i].workflow_name]
                        # last'.sent[i].sid
       /\ \A i \in 1..Len(last.sent) :
             last.sent[i].action = "terminate_session" =>
                 \A j \in 1..Len(last'.sent) :
                     last'.sent[j].workflow_name = last.sent[i].workflow_name
                         => last'.sent[j].sid # last.sent[i].sid]_vars

====
